---- MODULE Spec2Model ----
(***************************************************************************)
(* Model of src/main.py: a Streamlit quiz runner.  The script is re-run    *)
(* from top to bottom after every widget event; its persistent state is    *)
(* st.session_state.  One action of the model is one widget event: the     *)
(* handler the script runs for it followed by the re-run (st.rerun) that   *)
(* recomputes the active question list, clamps the index and fetches the   *)
(* question to display.                                                    *)
(*                                                                         *)
(* Python values: a dict is a function whose DOMAIN is its set of keys;    *)
(* a str is PyStr(s) with s a sequence of one-character strings; None and  *)
(* the ints that may be None are tagged records (None, PyInt(i)), so that  *)
(* isinstance and == between values of different types can be evaluated.   *)
(***************************************************************************)
EXTENDS Integers, Sequences, FiniteSets, TLC

VARIABLES
    source,                 \* the file at DATA_PATH
    pc,                     \* position of the script
    BANK,                   \* line 22
    ALL_QUESTIONS,          \* line 35
    mode,                   \* st.session_state.mode
    show_correct_between,   \* st.session_state.show_correct_between
    current_index,          \* st.session_state.current_index
    answers,                \* st.session_state.answers
    locked,                 \* st.session_state.locked
    last_feedback,          \* st.session_state.last_feedback
    questions,              \* line 201: the active list of the last run
    q,                      \* line 210: the question fetched by the last run
    correct_letter,         \* line 249: a local of the run that resolves it
    last_action             \* history: the widget event handled last

vars == <<source, pc, BANK, ALL_QUESTIONS, mode, show_correct_between,
          current_index, answers, locked, last_feedback, questions, q,
          correct_letter, last_action>>

(***************************************************************************)
(* Bounds of the model.                                                    *)
(***************************************************************************)
NumQ == 3       \* questions in the largest well-formed bank
MaxLen == 2     \* longest "correcta" text drawn for get_correct_letter

(***************************************************************************)
(* Python values.                                                          *)
(***************************************************************************)
None == [none |-> TRUE]
PyStr(s) == [str |-> s]
PyInt(i) == [int |-> i]
EmptyDict == [k \in {} |-> None]

isinstance_str(v) == "str" \in DOMAIN v

\* d.get(k, default)
Get(d, k, default) == IF k \in DOMAIN d THEN d[k] ELSE default

\* d[k] = v on a copy of d
SetKey(d, k, v) == [x \in DOMAIN d \cup {k} |-> IF x = k THEN v ELSE d[x]]

\* bool(v) of an option value (a str or None): None and "" are falsy
Truthy(v) == isinstance_str(v) /\ v.str # <<>>

Min(a, b) == IF a < b THEN a ELSE b
Max(a, b) == IF a > b THEN a ELSE b

(***************************************************************************)
(* str.strip, str.upper, str.lower on the characters of the model.         *)
(***************************************************************************)
UpperChar(c) ==
    CASE c = "a" -> "A" [] c = "b" -> "B" [] c = "c" -> "C"
      [] c = "x" -> "X" [] c = "y" -> "Y" [] OTHER -> c

LowerChar(c) ==
    CASE c = "A" -> "a" [] c = "B" -> "b" [] c = "C" -> "c"
      [] c = "X" -> "x" [] c = "Y" -> "y" [] OTHER -> c

upper(s) == [i \in 1..Len(s) |-> UpperChar(s[i])]
lower(s) == [i \in 1..Len(s) |-> LowerChar(s[i])]

RECURSIVE lstrip(_)
lstrip(s) == IF s # <<>> /\ Head(s) = " " THEN lstrip(Tail(s)) ELSE s

RECURSIVE rstrip(_)
rstrip(s) ==
    IF s # <<>> /\ s[Len(s)] = " " THEN rstrip(SubSeq(s, 1, Len(s) - 1)) ELSE s

strip(s) == rstrip(lstrip(s))

\* str(v) of a truthy option value, which is a str: the text itself
str(v) == v.str

(***************************************************************************)
(* load_bank and flatten_questions.                                        *)
(***************************************************************************)
\* load_bank without the check of lines 14-16: open() raises
load_bank_no_exists_check(src) ==
    IF ~src.exists \/ ~src.parses THEN [outcome |-> "error", data |-> None]
    ELSE [outcome |-> "loaded", data |-> src.data]

\* lines 14-20: the outcome of load_bank on the file `src`: st.stop() on a
\* missing file, the exception of json.load on an unparsable one
load_bank(src) ==
    IF ~src.exists THEN [outcome |-> "stopped", data |-> None]
    ELSE IF ~src.parses THEN [outcome |-> "error", data |-> None]
    ELSE [outcome |-> "loaded", data |-> src.data]

\* lines 29-32: the questions of one lote, each copied and tagged
flatten_lote(lote) ==
    LET lote_id == Get(lote, "lote_id", None)
        preguntas == Get(lote, "preguntas", <<>>)
    IN  [i \in 1..Len(preguntas) |-> SetKey(preguntas[i], "lote_id", lote_id)]

RECURSIVE flatten_lotes(_)
flatten_lotes(lotes) ==
    IF lotes = <<>> THEN <<>>
    ELSE flatten_lote(Head(lotes)) \o flatten_lotes(Tail(lotes))

\* lines 25-33
flatten_questions(bank) == flatten_lotes(Get(bank, "lotes", <<>>))

(***************************************************************************)
(* Utility functions (lines 56-128).  They read st.session_state and the   *)
(* module-level ALL_QUESTIONS; here those are parameters (all, ans) so     *)
(* that an action can apply them to the state it has just written.         *)
(***************************************************************************)
Modes == {"full", "lote1", "lote2", "lote3", "review"}
Letters == {"A", "B", "C"}

\* line 60 counting the lotes from 0
lote_target_zero_based(m) ==
    CASE m = "lote1" -> 0 [] m = "lote2" -> 1 [] m = "lote3" -> 2

\* line 60: int(mode.replace("lote", ""))
lote_target(m) == CASE m = "lote1" -> 1 [] m = "lote2" -> 2 [] m = "lote3" -> 3

\* the questions of `all` whose lote_id is `target` (lines 61 and 85)
in_lote(all, target) ==
    SelectSeq(all, LAMBDA x : Get(x, "lote_id", None) = PyInt(target))

\* line 64 without "and not a.get('correct', False)"
failed_ids_all_attempted(ans) ==
    {n \in DOMAIN ans : Get(ans[n], "attempts", 0) >= 1}

\* line 64
failed_ids(ans) ==
    {n \in DOMAIN ans :
        Get(ans[n], "attempts", 0) >= 1 /\ ~Get(ans[n], "correct", FALSE)}

\* lines 56-66 with line 66 returning the whole bank
get_questions_for_mode_default_full(m, all, ans) ==
    IF m = "full" THEN all
    ELSE IF m \in {"lote1", "lote2", "lote3"} THEN in_lote(all, lote_target(m))
    ELSE IF m = "review"
         THEN SelectSeq(all, LAMBDA x : x["n"] \in failed_ids(ans))
    ELSE all

\* lines 56-66
get_questions_for_mode(m, all, ans) ==
    IF m = "full" THEN all
    ELSE IF m \in {"lote1", "lote2", "lote3"} THEN in_lote(all, lote_target(m))
    ELSE IF m = "review"
         THEN SelectSeq(all, LAMBDA x : x["n"] \in failed_ids(ans))
    ELSE <<>>

\* line 77: the key of the option text of letter k
option_key(k) ==
    CASE k = "A" -> "respuesta_a" [] k = "B" -> "respuesta_b"
      [] k = "C" -> "respuesta_c"

\* line 79 without the two calls of lower()
option_matches_case_sensitive(question, k, corr) ==
    LET v == Get(question, option_key(k), None)
    IN  Truthy(v) /\ strip(str(v)) = strip(corr)

\* line 79: the option of letter k is a truthy value equal to corr, both
\* trimmed and lowercased
option_matches(question, k, corr) ==
    LET v == Get(question, option_key(k), None)
    IN  Truthy(v) /\ lower(strip(str(v))) = lower(strip(corr))

\* lines 68-81
get_correct_letter(question) ==
    LET corr == Get(question, "correcta", None)
    IN  IF isinstance_str(corr)
        THEN LET corr_up == upper(strip(corr.str))
             IN  IF corr_up \in {<<"A">>, <<"B">>, <<"C">>} THEN corr_up[1]
                 ELSE IF option_matches(question, "A", corr.str) THEN "A"
                 ELSE IF option_matches(question, "B", corr.str) THEN "B"
                 ELSE IF option_matches(question, "C", corr.str) THEN "C"
                 ELSE "A"
        ELSE "A"

\* st.session_state.answers.get(n, {})
answer_of(ans, n) == IF n \in DOMAIN ans THEN ans[n] ELSE EmptyDict

\* is_lot_completed without lines 86-87
is_lot_completed_no_empty_check(lote_id, all, ans) ==
    LET lot_questions == in_lote(all, lote_id)
    IN  \A i \in 1..Len(lot_questions) :
            Get(answer_of(ans, lot_questions[i]["n"]), "correct", FALSE)

\* is_lot_completed returning True at the first correct question
is_lot_completed_any_correct(lote_id, all, ans) ==
    LET lot_questions == in_lote(all, lote_id)
    IN  \E i \in 1..Len(lot_questions) :
            Get(answer_of(ans, lot_questions[i]["n"]), "correct", FALSE)

\* lines 83-92
is_lot_completed(lote_id, all, ans) ==
    LET lot_questions == in_lote(all, lote_id)
    IN  IF lot_questions = <<>> THEN FALSE
        ELSE \A i \in 1..Len(lot_questions) :
                Get(answer_of(ans, lot_questions[i]["n"]), "correct", FALSE)

\* totals counting only the records of the questions of the active list
totals_of_active_list(all, ans) ==
    LET ids == {questions[i]["n"] : i \in 1..Len(questions)}
        attempted ==
            Cardinality({n \in DOMAIN ans \cap ids :
                            Get(ans[n], "attempts", 0) >= 1})
        correct ==
            Cardinality({n \in DOMAIN ans \cap ids :
                            Get(ans[n], "correct", FALSE)})
    IN  [attempted |-> attempted,
         correct |-> correct,
         wrong |-> attempted - correct,
         total |-> Len(questions),
         completed_lots |->
            Cardinality({lid \in {1, 2, 3} : is_lot_completed(lid, all, ans)})]

\* lines 94-111 (progress, a float shown as a percentage, is left out)
totals(all, ans) ==
    LET attempted ==
            Cardinality({n \in DOMAIN ans : Get(ans[n], "attempts", 0) >= 1})
        correct ==
            Cardinality({n \in DOMAIN ans : Get(ans[n], "correct", FALSE)})
    IN  [attempted |-> attempted,
         correct |-> correct,
         wrong |-> attempted - correct,
         total |-> Len(all),
         completed_lots |->
            Cardinality({lid \in {1, 2, 3} : is_lot_completed(lid, all, ans)})]

(***************************************************************************)
(* The widget handlers (lines 116-128, 148-160, 242-278).                  *)
(***************************************************************************)
\* reset_results without line 118
reset_results_keeps_locked ==
    [answers |-> EmptyDict, locked |-> locked, current_index |-> 0,
     last_feedback |-> None]

\* lines 116-120
reset_results ==
    [answers |-> EmptyDict, locked |-> {}, current_index |-> 0,
     last_feedback |-> None]

\* line 123
next_question(idx) == idx + 1

\* line 127
prev_question(idx) == Max(0, idx - 1)

\* line 242 with the negation dropped
submit_disabled_if_correct(question, ans, lck) ==
    LET prev_answer == answer_of(ans, question["n"])
    IN  question["n"] \in lck /\ Get(prev_answer, "correct", FALSE)

\* the "Responder" button of line 242 without the disabled flag
submit_disabled_never(question, ans, lck) == FALSE

\* line 242: the disabled flag of the "Responder" button
submit_disabled(question, ans, lck) ==
    LET prev_answer == answer_of(ans, question["n"])
    IN  question["n"] \in lck /\ ~Get(prev_answer, "correct", FALSE)

\* line 250: the record a submit works on
submit_record(question, ans) ==
    IF question["n"] \in DOMAIN ans THEN ans[question["n"]]
    ELSE [attempts |-> 0, correct |-> FALSE, selected |-> None,
          lote_id |-> question["lote_id"]]

\* answers[n] = a
store(ans, n, a) == [x \in DOMAIN ans \cup {n} |-> IF x = n THEN a ELSE ans[x]]

\* the already-correct branch storing the default record of line 250
submit_already_correct_fresh_record(question, choice, ans, lck) ==
    LET a == [attempts |-> 0, correct |-> TRUE, selected |-> choice,
              lote_id |-> question["lote_id"]]
    IN  [answers |-> store(ans, question["n"], a),
         locked |-> lck,
         outcome |-> "already-correct"]

\* the already-correct branch with the increment of line 261
submit_already_correct_counts(question, choice, ans, lck) ==
    LET a == submit_record(question, ans)
        a1 == [a EXCEPT !.attempts = Get(a, "attempts", 0) + 1,
                        !.selected = choice]
    IN  [answers |-> store(ans, question["n"], a1),
         locked |-> lck,
         outcome |-> "already-correct"]

\* lines 252-254: the record was already correct
submit_already_correct(question, choice, ans, lck) ==
    LET a == submit_record(question, ans)
    IN  [answers |-> store(ans, question["n"], [a EXCEPT !.selected = choice]),
         locked |-> lck,
         outcome |-> "already-correct"]

\* the correct branch without the increment of line 261
submit_correct_skips_attempt(question, choice, ans, lck) ==
    LET a == submit_record(question, ans)
        a1 == [a EXCEPT !.selected = choice, !.correct = TRUE]
    IN  [answers |-> store(ans, question["n"], a1),
         locked |-> lck,
         outcome |-> "correct"]

\* lines 261-265: the choice is the correct letter
submit_correct(question, choice, ans, lck) ==
    LET a == submit_record(question, ans)
        a1 == [a EXCEPT !.attempts = Get(a, "attempts", 0) + 1,
                        !.selected = choice,
                        !.correct = TRUE]
    IN  [answers |-> store(ans, question["n"], a1),
         locked |-> lck,
         outcome |-> "correct"]

\* the fallo branch without line 274
submit_wrong_no_lock(question, choice, ans, lck) ==
    LET a == submit_record(question, ans)
        a1 == [a EXCEPT !.attempts = Get(a, "attempts", 0) + 1,
                        !.selected = choice]
    IN  [answers |-> store(ans, question["n"], a1),
         locked |-> lck,
         outcome |-> "incorrect"]

\* lines 261-262, 272-274: the choice is wrong
submit_wrong(question, choice, ans, lck) ==
    LET a == submit_record(question, ans)
        a1 == [a EXCEPT !.attempts = Get(a, "attempts", 0) + 1,
                        !.selected = choice]
    IN  [answers |-> store(ans, question["n"], a1),
         locked |-> lck \cup {question["n"]},
         outcome |-> "incorrect"]

\* lines 248-278 without the already-correct branch of line 252
submitted_always_evaluates(question, choice, ans, lck) ==
    IF choice = get_correct_letter(question)
    THEN submit_correct(question, choice, ans, lck)
    ELSE submit_wrong(question, choice, ans, lck)

\* lines 248-278, up to the call of next_question
submitted(question, choice, ans, lck) ==
    IF Get(submit_record(question, ans), "correct", FALSE)
    THEN submit_already_correct(question, choice, ans, lck)
    ELSE IF choice = get_correct_letter(question)
         THEN submit_correct(question, choice, ans, lck)
         ELSE submit_wrong(question, choice, ans, lck)

\* line 209 clamping to the length instead of the last position
clamp_index_to_length(idx, total_in_mode) == Min(idx, total_in_mode)

\* line 209
clamp_index(idx, total_in_mode) == Min(idx, total_in_mode - 1)

\* the exception of a list index out of range
IndexError == [raised |-> "IndexError"]

\* line 210: questions[idx]; a negative index counts from the end
fetch(qs, idx) ==
    IF 0 <= idx /\ idx < Len(qs) THEN qs[idx + 1]
    ELSE IF 0 - Len(qs) <= idx /\ idx < 0 THEN qs[Len(qs) + idx + 1]
    ELSE IndexError

\* lines 201-210 of the run that follows a handler: with session state
\* (m, idx, ans) it resolves the list, stops on an empty one, otherwise
\* clamps the index and fetches the question
Rerun(m, idx, ans) ==
    LET qs == get_questions_for_mode(m, ALL_QUESTIONS, ans)
        total_in_mode == Len(qs)
    IN  /\ questions' = qs
        /\ IF total_in_mode = 0
           THEN current_index' = idx /\ q' = None
           ELSE /\ current_index' = clamp_index(idx, total_in_mode)
                /\ q' = fetch(qs, clamp_index(idx, total_in_mode))

(***************************************************************************)
(* The question bank documents the session is run on.                      *)
(***************************************************************************)
\* the i-th question of a bank of `size` questions: its n is not in load
\* order, and its "correcta" is a padded lowercase letter, an option text
\* in another case, or missing
Question(i, size) ==
    LET base == [n |-> (i % size) + 1,
                 pregunta |-> PyStr(<<"x">>),
                 respuesta_a |-> PyStr(<<"x">>),
                 respuesta_b |-> PyStr(<<"y">>),
                 respuesta_c |-> PyStr(<<"x", "y">>)]
    IN  CASE i % 3 = 1 -> SetKey(base, "correcta", PyStr(<<" ", "b">>))
          [] i % 3 = 2 -> SetKey(base, "correcta", PyStr(<<"X", "Y", " ">>))
          [] OTHER -> base

\* questions a..b of a bank of `size` questions
Pool(a, b, size) == [i \in 1..(b - a + 1) |-> Question(a + i - 1, size)]

Lote(id, preguntas) == [lote_id |-> PyInt(id), preguntas |-> preguntas]

\* one lote holding NumQ questions
DocOneLote == [lotes |-> <<Lote(1, Pool(1, NumQ, NumQ))>>]

\* three questions; the lotes are not in id order, lote 3 does not exist,
\* lote 4 has no badge
DocMixed ==
    [lotes |-> <<Lote(2, Pool(1, 1, 3)), Lote(1, Pool(2, 2, 3)),
                 Lote(4, Pool(3, 3, 3))>>]

\* three questions, one in each of the lotes 1..3
DocThreeLotes ==
    [lotes |-> <<Lote(1, Pool(1, 1, 3)), Lote(2, Pool(2, 2, 3)),
                 Lote(3, Pool(3, 3, 3))>>]

DocEmpty == [lotes |-> <<>>]

BankDocs == {DocOneLote, DocMixed, DocThreeLotes, DocEmpty}

File(d) == [exists |-> TRUE, parses |-> TRUE, data |-> d]

(***************************************************************************)
(* The session: the state after lines 1-51 and the first run on a          *)
(* well-formed bank, and one action per widget event.                      *)
(***************************************************************************)
Init ==
    /\ source \in {File(d) : d \in BankDocs}
    /\ pc = "run"
    /\ BANK = load_bank(source).data
    /\ ALL_QUESTIONS = flatten_questions(BANK)
    /\ mode = "full"
    /\ show_correct_between = FALSE
    /\ current_index = 0
    /\ answers = EmptyDict
    /\ locked = {}
    /\ last_feedback = None
    /\ questions = ALL_QUESTIONS
    /\ q = IF ALL_QUESTIONS = <<>> THEN None ELSE ALL_QUESTIONS[1]
    /\ correct_letter = "unset"
    /\ last_action = [op |-> "init"]

\* the mode selectbox without line 150
SelectMode_keeps_index(m) ==
    /\ pc = "run"
    /\ mode' = m
    /\ last_feedback' = IF m # mode THEN None ELSE last_feedback
    /\ Rerun(m, current_index, answers)
    /\ last_action' = [op |-> "mode", changed |-> (m # mode)]
    /\ UNCHANGED <<source, pc, BANK, ALL_QUESTIONS, show_correct_between,
                   answers, locked, correct_letter>>

\* lines 134-151: the mode selectbox
SelectMode(m) ==
    /\ pc = "run"
    /\ mode' = m
    /\ last_feedback' = IF m # mode THEN None ELSE last_feedback
    /\ Rerun(m, IF m # mode THEN 0 ELSE current_index, answers)
    /\ last_action' = [op |-> "mode", changed |-> (m # mode)]
    /\ UNCHANGED <<source, pc, BANK, ALL_QUESTIONS, show_correct_between,
                   answers, locked, correct_letter>>

\* lines 153-156: the checkbox
SetShowCorrect(b) ==
    /\ pc = "run"
    /\ show_correct_between' = b
    /\ Rerun(mode, current_index, answers)
    /\ last_action' = [op |-> "show"]
    /\ UNCHANGED <<source, pc, BANK, ALL_QUESTIONS, mode, answers, locked,
                   last_feedback, correct_letter>>

\* the reset button putting back the defaults of lines 41-42 as well
ResetClick_resets_mode ==
    /\ pc = "run"
    /\ mode' = "full"
    /\ show_correct_between' = FALSE
    /\ answers' = reset_results.answers
    /\ locked' = reset_results.locked
    /\ last_feedback' = reset_results.last_feedback
    /\ Rerun(mode', reset_results.current_index, answers')
    /\ last_action' = [op |-> "reset", cleared |-> Cardinality(DOMAIN answers),
                       unlocked |-> Cardinality(locked),
                       index |-> current_index]
    /\ UNCHANGED <<source, pc, BANK, ALL_QUESTIONS, correct_letter>>

\* lines 158-160: the reset button
ResetClick ==
    /\ pc = "run"
    /\ answers' = reset_results.answers
    /\ locked' = reset_results.locked
    /\ last_feedback' = reset_results.last_feedback
    /\ Rerun(mode, reset_results.current_index, answers')
    /\ last_action' = [op |-> "reset", cleared |-> Cardinality(DOMAIN answers),
                       unlocked |-> Cardinality(locked),
                       index |-> current_index]
    /\ UNCHANGED <<source, pc, BANK, ALL_QUESTIONS, mode,
                   show_correct_between, correct_letter>>

\* lines 237-239: "Anterior", rendered only when a question was fetched
PrevClick ==
    /\ pc = "run"
    /\ q # None
    /\ last_feedback' = None
    /\ Rerun(mode, prev_question(current_index), answers)
    /\ last_action' = [op |-> "prev"]
    /\ UNCHANGED <<source, pc, BANK, ALL_QUESTIONS, mode,
                   show_correct_between, answers, locked, correct_letter>>

\* lines 244-246: "Siguiente"
NextClick ==
    /\ pc = "run"
    /\ q # None
    /\ last_feedback' = None
    /\ Rerun(mode, next_question(current_index), answers)
    /\ last_action' = [op |-> "next"]
    /\ UNCHANGED <<source, pc, BANK, ALL_QUESTIONS, mode,
                   show_correct_between, answers, locked, correct_letter>>

\* "Responder" keeping the message of lines 255, 265 and 275 in last_feedback
SubmitClick_stores_feedback(choice) ==
    /\ pc = "run"
    /\ q # None
    /\ ~submit_disabled(q, answers, locked)
    /\ LET r == submitted(q, choice, answers, locked)
       IN  /\ answers' = r.answers
           /\ locked' = r.locked
           /\ last_feedback' = IF show_correct_between
                               THEN [message |-> r.outcome]
                               ELSE None
           /\ Rerun(mode, next_question(current_index), r.answers)
           /\ last_action' = [op |-> "submit", n |-> q["n"],
                              choice |-> choice, outcome |-> r.outcome]
    /\ UNCHANGED <<source, pc, BANK, ALL_QUESTIONS, mode,
                   show_correct_between, correct_letter>>

\* lines 242, 248-278: "Responder" with the radio on `choice`
SubmitClick(choice) ==
    /\ pc = "run"
    /\ q # None
    /\ ~submit_disabled(q, answers, locked)
    /\ LET r == submitted(q, choice, answers, locked)
       IN  /\ answers' = r.answers
           /\ locked' = r.locked
           /\ last_feedback' = None
           /\ Rerun(mode, next_question(current_index), r.answers)
           /\ last_action' = [op |-> "submit", n |-> q["n"],
                              choice |-> choice, outcome |-> r.outcome]
    /\ UNCHANGED <<source, pc, BANK, ALL_QUESTIONS, mode,
                   show_correct_between, correct_letter>>

Next ==
    \/ \E m \in Modes : SelectMode(m)
    \/ \E b \in BOOLEAN : SetShowCorrect(b)
    \/ ResetClick
    \/ PrevClick
    \/ NextClick
    \/ \E choice \in Letters : SubmitClick(choice)

Spec == Init /\ [][Next]_vars

(***************************************************************************)
(* Helpers of the properties.                                              *)
(***************************************************************************)
\* the ids of the questions of the bank
BankIds == {ALL_QUESTIONS[i]["n"] : i \in 1..Len(ALL_QUESTIONS)}

\* question n has a record of at least one attempt that is not correct
Failed(n) ==
    n \in DOMAIN answers /\ answers[n].attempts >= 1 /\ ~answers[n].correct

\* question n has a record that is correct
Correct(n) == n \in DOMAIN answers /\ answers[n].correct

\* the question of the bank whose id is n
QuestionOf(n) ==
    ALL_QUESTIONS[CHOOSE i \in 1..Len(ALL_QUESTIONS) : ALL_QUESTIONS[i]["n"] = n]

(***************************************************************************)
(* C1: after an incorrect submit for question n, n is locked; while n is   *)
(* locked the submit button is disabled whenever n is the question on      *)
(* display, and no step other than a reset changes n's record or removes   *)
(* n from the locked set.                                                  *)
(***************************************************************************)
C1_LockedAfterFailure ==
    (last_action.op = "submit" /\ last_action.outcome = "incorrect")
        => last_action.n \in locked

C1_SubmitDisabled ==
    /\ \A i \in 1..Len(ALL_QUESTIONS) :
          ALL_QUESTIONS[i]["n"] \in locked
              => submit_disabled(ALL_QUESTIONS[i], answers, locked)
    /\ (q # None /\ q["n"] \in locked) => ~ENABLED (\E c \in Letters : SubmitClick(c))

C1_LockedFrozen ==
    \A n \in locked :
        last_action'.op # "reset"
            => /\ n \in locked'
               /\ n \in DOMAIN answers'
               /\ answers'[n] = answers[n]

\* C1: a failed question is locked, its submit is disabled, and until a
\* reset its record and its lock stay as they are
C1_Locking ==
    /\ [](C1_LockedAfterFailure /\ C1_SubmitDisabled)
    /\ [][C1_LockedFrozen]_vars

\* a locked question is on display again after navigating back to it
C1_Witness ==
    /\ q # None
    /\ q["n"] \in locked
    /\ last_action.op = "prev"
    /\ mode = "lote1"

(***************************************************************************)
(* C2: a question is locked iff it has a record with attempts >= 1 and     *)
(* correct = FALSE; no question is both locked and correct.                *)
(***************************************************************************)
C2_LockedIffFailed ==
    /\ \A n \in BankIds \cup locked \cup DOMAIN answers :
          n \in locked <=> Failed(n)
    /\ \A n \in locked : ~Correct(n)

\* one question is locked while another is correct
C2_Witness ==
    \E n1, n2 \in BankIds : n1 \in locked /\ Failed(n1) /\ Correct(n2)

(***************************************************************************)
(* C3: a submit of any letter c for a question whose record is already     *)
(* correct is possible, leaves attempts and correct unchanged, does not    *)
(* lock the question and sets selected = c; a correct record stays correct *)
(* on every step that is not a reset.                                      *)
(***************************************************************************)
C3_ResubmitEnabled ==
    (q # None /\ Correct(q["n"]))
        => \A c \in Letters : ENABLED SubmitClick(c)

C3_ResubmitEffect ==
    (last_action'.op = "submit" /\ Correct(q["n"]))
        => /\ answers'[q["n"]].attempts = answers[q["n"]].attempts
           /\ answers'[q["n"]].correct = TRUE
           /\ answers'[q["n"]].selected = last_action'.choice
           /\ q["n"] \notin locked'
           /\ locked' = locked

C3_CorrectStays ==
    \A n \in DOMAIN answers :
        (answers[n].correct /\ last_action'.op # "reset")
            => n \in DOMAIN answers' /\ answers'[n].correct

\* C3: a submit for an already correct question is possible with any
\* letter and only writes selected; correct stays TRUE until a reset
C3_AlreadyCorrect ==
    /\ []C3_ResubmitEnabled
    /\ [][C3_ResubmitEffect /\ C3_CorrectStays]_vars

\* a correct question was submitted again with a letter that is not its
\* correct letter
C3_Witness ==
    /\ last_action.op = "submit"
    /\ last_action.outcome = "already-correct"
    /\ last_action.choice # get_correct_letter(QuestionOf(last_action.n))
    /\ Correct(last_action.n)
    /\ answers[last_action.n].selected = last_action.choice

(***************************************************************************)
(* C4: right after a reset the totals attempted, correct and wrong are 0,  *)
(* no question is locked, current_index is 0 and last_feedback is empty.   *)
(***************************************************************************)
C4_ResetLaw ==
    last_action.op = "reset"
        => /\ totals(ALL_QUESTIONS, answers).attempted = 0
           /\ totals(ALL_QUESTIONS, answers).correct = 0
           /\ totals(ALL_QUESTIONS, answers).wrong = 0
           /\ locked = {}
           /\ \A n \in BankIds : n \notin locked
           /\ current_index = 0
           /\ last_feedback = None

\* a reset that cleared records and locks and moved the index back
C4_Witness ==
    /\ last_action.op = "reset"
    /\ last_action.cleared >= 2
    /\ last_action.unlocked >= 1
    /\ last_action.index >= 1
    /\ mode # "full"

(***************************************************************************)
(* C5: is_lot_completed(k) holds iff the bank has a question of lote k and *)
(* every question of lote k has a correct record (so it is false for a     *)
(* lote without questions), and completed_lots counts the k in 1..3 for    *)
(* which that holds.                                                       *)
(***************************************************************************)
LoteHasQuestion(k) ==
    \E i \in 1..Len(ALL_QUESTIONS) : ALL_QUESTIONS[i]["lote_id"] = PyInt(k)

LoteAllCorrect(k) ==
    \A i \in 1..Len(ALL_QUESTIONS) :
        ALL_QUESTIONS[i]["lote_id"] = PyInt(k)
            => Correct(ALL_QUESTIONS[i]["n"])

C5_BatchCompletion ==
    /\ \A k \in 0..5 :
          is_lot_completed(k, ALL_QUESTIONS, answers)
              <=> (LoteHasQuestion(k) /\ LoteAllCorrect(k))
    /\ \A k \in 0..5 :
          ~LoteHasQuestion(k) => ~is_lot_completed(k, ALL_QUESTIONS, answers)
    /\ totals(ALL_QUESTIONS, answers).completed_lots
          = Cardinality({k \in {1, 2, 3} :
                            LoteHasQuestion(k) /\ LoteAllCorrect(k)})

\* one of the lotes 1..3 is completed, another has a failed question, lote 3
\* has no question, and lote 4 is all correct without being counted
C5_Witness ==
    /\ totals(ALL_QUESTIONS, answers).completed_lots = 1
    /\ is_lot_completed(2, ALL_QUESTIONS, answers)
    /\ LoteHasQuestion(1) /\ ~is_lot_completed(1, ALL_QUESTIONS, answers)
    /\ ~LoteHasQuestion(3)
    /\ is_lot_completed(4, ALL_QUESTIONS, answers)

(***************************************************************************)
(* C6: the review list is the subsequence of the bank, in load order, of   *)
(* the questions with a record of attempts >= 1 and correct = FALSE; it    *)
(* holds no correct question and is empty when nothing has failed.         *)
(***************************************************************************)
\* the positions of the bank whose question has failed
FailedPositions == {i \in 1..Len(ALL_QUESTIONS) : Failed(ALL_QUESTIONS[i]["n"])}

\* the j-th smallest failed position
NthFailedPosition(j) ==
    CHOOSE i \in FailedPositions :
        Cardinality({k \in FailedPositions : k < i}) = j - 1

ReviewList == get_questions_for_mode("review", ALL_QUESTIONS, answers)

C6_ReviewList ==
    /\ Len(ReviewList) = Cardinality(FailedPositions)
    /\ \A j \in 1..Len(ReviewList) :
          ReviewList[j] = ALL_QUESTIONS[NthFailedPosition(j)]
    /\ \A j \in 1..Len(ReviewList) : ~Correct(ReviewList[j]["n"])
    /\ (\A n \in BankIds : ~Failed(n)) => ReviewList = <<>>
    /\ mode = "review" => questions = ReviewList

\* the question that has just failed is listed first, before one that
\* failed earlier, and a correct question is left out
C6_Witness ==
    /\ last_action.op = "submit"
    /\ last_action.outcome = "incorrect"
    /\ Len(ReviewList) = 2
    /\ ReviewList[1]["n"] = last_action.n
    /\ ReviewList[1]["n"] > ReviewList[2]["n"]
    /\ \E n \in BankIds : Correct(n)

(***************************************************************************)
(* C8: the header totals count all records whatever the mode and index:    *)
(* attempted = questions with a record of attempts >= 1, correct =         *)
(* questions with a correct record, wrong = attempted - correct, total =   *)
(* size of the bank; so 0 <= wrong and correct <= attempted <= total, and  *)
(* a mode change or a navigation step leaves the totals as they were.      *)
(***************************************************************************)
Header == totals(ALL_QUESTIONS, answers)

C8_TotalsValues ==
    /\ Header.attempted
          = Cardinality({i \in 1..Len(ALL_QUESTIONS) :
                            /\ ALL_QUESTIONS[i]["n"] \in DOMAIN answers
                            /\ answers[ALL_QUESTIONS[i]["n"]].attempts >= 1})
    /\ Header.correct
          = Cardinality({i \in 1..Len(ALL_QUESTIONS) :
                            Correct(ALL_QUESTIONS[i]["n"])})
    /\ Header.wrong = Header.attempted - Header.correct
    /\ Header.wrong = Cardinality(FailedPositions)
    /\ Header.total = Len(ALL_QUESTIONS)
    /\ 0 <= Header.wrong
    /\ Header.correct <= Header.attempted
    /\ Header.attempted <= Header.total

C8_TotalsFrame ==
    last_action'.op \in {"mode", "prev", "next", "show"}
        => totals(ALL_QUESTIONS', answers') = totals(ALL_QUESTIONS, answers)

\* C8: the header totals count the records of the whole bank, are ordered
\* 0 <= wrong, correct <= attempted <= total, and are left unchanged by a
\* mode change or a navigation step
C8_Totals == []C8_TotalsValues /\ [][C8_TotalsFrame]_vars

\* a lote mode shows one question while the totals count three records of
\* the whole bank, one of them wrong
C8_Witness ==
    /\ mode = "lote2"
    /\ Len(questions) = 1
    /\ last_action.op = "mode"
    /\ Header.attempted = 3
    /\ Header.correct = 2
    /\ Header.wrong = 1
    /\ Header.total = 3

(***************************************************************************)
(* The session variables of the specifications that apply one function.    *)
(***************************************************************************)
SessionDefaults ==
    /\ mode = "full"
    /\ show_correct_between = FALSE
    /\ current_index = 0
    /\ answers = EmptyDict
    /\ locked = {}
    /\ last_feedback = None
    /\ last_action = [op |-> "init"]

(***************************************************************************)
(* get_correct_letter applied to one question record.                      *)
(***************************************************************************)
Chars == {"a", "B", "c", "x", "X", " "}

Texts(n) == UNION {[1..k -> Chars] : k \in 0..n}

Absent == [absent |-> TRUE]

\* a "correcta": a text, a number, or no key
CorrectaValues == {PyStr(t) : t \in Texts(MaxLen)} \cup {PyInt(1), Absent}

\* an option: an empty, blank, plain or padded text, or no key
OptionValues ==
    {PyStr(<<>>), PyStr(<<" ">>), PyStr(<<"x">>), PyStr(<<"X", " ">>),
     PyStr(<<"b">>), Absent}

WithKey(d, k, v) == IF v = Absent THEN d ELSE SetKey(d, k, v)

LetterQuestion(corr, a, b, c) ==
    WithKey(WithKey(WithKey(WithKey(
        [n |-> 1, pregunta |-> PyStr(<<"x">>)],
        "respuesta_a", a), "respuesta_b", b), "respuesta_c", c),
        "correcta", corr)

InitLetter ==
    /\ source = File(DocEmpty)
    /\ pc = "resolve"
    /\ BANK = DocEmpty
    /\ ALL_QUESTIONS = <<>>
    /\ SessionDefaults
    /\ questions = <<>>
    /\ q \in {LetterQuestion(corr, a, b, c) :
                corr \in CorrectaValues, a \in OptionValues,
                b \in OptionValues, c \in OptionValues}
    /\ correct_letter = "unset"

\* line 249
ResolveLetter ==
    /\ pc = "resolve"
    /\ correct_letter' = get_correct_letter(q)
    /\ pc' = "resolved"
    /\ UNCHANGED <<source, BANK, ALL_QUESTIONS, mode, show_correct_between,
                   current_index, answers, locked, last_feedback, questions,
                   q, last_action>>

NextLetter == ResolveLetter

SpecLetter == InitLetter /\ [][NextLetter]_vars

(***************************************************************************)
(* get_questions_for_mode applied to any mode value.                       *)
(***************************************************************************)
AnyModes == Modes \cup {"lote4", "lote", "Full", "batch-1", ""}

\* the answers of a session on the bank `all`: each question has no record,
\* a correct one or a failed one
SessionAnswers(all) ==
    LET ids == {all[i]["n"] : i \in 1..Len(all)}
        rec(c) == [attempts |-> 1, correct |-> c, selected |-> "A",
                   lote_id |-> PyInt(1)]
    IN  UNION {{[n \in D |-> rec(n \in C)] : C \in SUBSET D} : D \in SUBSET ids}

InitResolve ==
    /\ source \in {File(d) : d \in BankDocs}
    /\ pc = "resolve"
    /\ BANK = load_bank(source).data
    /\ ALL_QUESTIONS = flatten_questions(BANK)
    /\ mode \in AnyModes
    /\ show_correct_between = FALSE
    /\ current_index = 0
    /\ answers \in SessionAnswers(ALL_QUESTIONS)
    /\ locked = {n \in DOMAIN answers : ~answers[n].correct}
    /\ last_feedback = None
    /\ last_action = [op |-> "init"]
    /\ questions = <<>>
    /\ q = None
    /\ correct_letter = "unset"

\* line 201
ResolveMode ==
    /\ pc = "resolve"
    /\ questions' = get_questions_for_mode(mode, ALL_QUESTIONS, answers)
    /\ pc' = "resolved"
    /\ UNCHANGED <<source, BANK, ALL_QUESTIONS, mode, show_correct_between,
                   current_index, answers, locked, last_feedback, q,
                   correct_letter, last_action>>

NextResolve == ResolveMode

SpecResolve == InitResolve /\ [][NextResolve]_vars

(***************************************************************************)
(* Start-up, lines 10-35, on any file: missing, unparsable, or a document  *)
(* with some of its fields left out.                                       *)
(***************************************************************************)
DocFields ==
    {"lotes", "lote_id", "preguntas", "n", "pregunta", "respuesta_a",
     "respuesta_b", "respuesta_c", "correcta"}

DropKeys(d, K) == [k \in DOMAIN d \ K |-> d[k]]

\* the lote without its keys in K, and its questions without theirs
DamageLote(lote, K) ==
    DropKeys(
        [lote_id |-> lote.lote_id,
         preguntas |-> [i \in 1..Len(lote.preguntas) |->
                            DropKeys(lote.preguntas[i], K)]],
        K)

\* the document with the keys in K left out of its j-th lote
Damage(doc, K, j) ==
    DropKeys(
        [lotes |-> [i \in 1..Len(doc.lotes) |->
                        IF i = j THEN DamageLote(doc.lotes[i], K)
                        ELSE doc.lotes[i]]],
        K)

DamagedDocs ==
    {Damage(doc, K, j) :
        doc \in {DocOneLote, DocMixed, DocThreeLotes},
        K \in SUBSET DocFields,
        j \in 1..3}

Sources ==
    {[exists |-> FALSE, parses |-> FALSE, data |-> None],
     [exists |-> TRUE, parses |-> FALSE, data |-> None]}
    \cup {File(d) : d \in DamagedDocs \cup BankDocs}

InitLoad ==
    /\ source \in Sources
    /\ pc = "load"
    /\ BANK = None
    /\ ALL_QUESTIONS = <<>>
    /\ SessionDefaults
    /\ questions = <<>>
    /\ q = None
    /\ correct_letter = "unset"

\* line 22
LoadBank ==
    /\ pc = "load"
    /\ pc' = load_bank(source).outcome
    /\ BANK' = load_bank(source).data
    /\ UNCHANGED <<source, ALL_QUESTIONS, mode, show_correct_between,
                   current_index, answers, locked, last_feedback, questions,
                   q, correct_letter, last_action>>

\* line 35
FlattenQuestions ==
    /\ pc = "loaded"
    /\ ALL_QUESTIONS' = flatten_questions(BANK)
    /\ pc' = "flattened"
    /\ UNCHANGED <<source, BANK, mode, show_correct_between, current_index,
                   answers, locked, last_feedback, questions, q,
                   correct_letter, last_action>>

NextLoad == LoadBank \/ FlattenQuestions

SpecLoad == InitLoad /\ [][NextLoad]_vars

(***************************************************************************)
(* Helpers of the properties of get_correct_letter, written from the       *)
(* statement and not from the code.                                        *)
(***************************************************************************)
\* s without its leading and trailing blanks
Trimmed(s) ==
    LET solid == {i \in 1..Len(s) : s[i] # " "}
        first == CHOOSE i \in solid : \A j \in solid : i <= j
        last == CHOOSE i \in solid : \A j \in solid : j <= i
    IN  IF solid = {} THEN <<>> ELSE SubSeq(s, first, last)

\* s and t are equal up to the case of their letters
SameIgnoringCase(s, t) ==
    /\ Len(s) = Len(t)
    /\ \A i \in 1..Len(s) : UpperChar(s[i]) = UpperChar(t[i])

HasText(question, key) ==
    key \in DOMAIN question /\ "str" \in DOMAIN question[key]

\* the letters that the trimmed "correcta" equals, ignoring case
NamedLetters(question) ==
    IF HasText(question, "correcta")
    THEN {k \in Letters :
            SameIgnoringCase(Trimmed(question["correcta"].str), <<k>>)}
    ELSE {}

\* the letters whose option text equals "correcta", both trimmed, ignoring
\* case; with nonempty, only the options whose text is not the empty text
MatchingLetters(question, nonempty) ==
    IF HasText(question, "correcta")
    THEN {k \in Letters :
            /\ HasText(question, option_key(k))
            /\ nonempty => question[option_key(k)].str # <<>>
            /\ SameIgnoringCase(Trimmed(question[option_key(k)].str),
                                Trimmed(question["correcta"].str))}
    ELSE {}

\* the first letter of S in the order A, B, C
FirstLetter(S) ==
    IF "A" \in S THEN "A" ELSE IF "B" \in S THEN "B" ELSE "C"

ExpectedLetter(question, nonempty) ==
    IF NamedLetters(question) # {}
    THEN CHOOSE k \in NamedLetters(question) : TRUE
    ELSE IF MatchingLetters(question, nonempty) # {}
         THEN FirstLetter(MatchingLetters(question, nonempty))
         ELSE "A"

(***************************************************************************)
(* C7 as stated: get_correct_letter returns the letter that the trimmed    *)
(* "correcta" names ignoring case, otherwise the first of A, B, C whose    *)
(* option text equals "correcta" ignoring case after trimming, otherwise   *)
(* A.  It fails for a blank "correcta" and an empty option text B or C.    *)
(***************************************************************************)
C7_Original ==
    pc = "resolved"
        => correct_letter \in Letters
           /\ correct_letter = ExpectedLetter(q, FALSE)

(***************************************************************************)
(* C7 as amended: get_correct_letter returns one of A, B, C: the letter    *)
(* that the trimmed "correcta" names ignoring case, otherwise the first of *)
(* A, B, C whose option text is not empty and equals "correcta" ignoring   *)
(* case after trimming, otherwise A.                                       *)
(***************************************************************************)
C7_CorrectLetter ==
    pc = "resolved"
        => correct_letter \in Letters
           /\ correct_letter = ExpectedLetter(q, TRUE)

\* "correcta" names no letter and equals the padded option B in another
\* case, while option A differs
C7_Witness ==
    /\ pc = "resolved"
    /\ correct_letter = "B"
    /\ NamedLetters(q) = {}
    /\ q["correcta"] = PyStr(<<"x">>)
    /\ q["respuesta_b"] = PyStr(<<"X", " ">>)
    /\ "respuesta_a" \in DOMAIN q
    /\ "respuesta_c" \in DOMAIN q /\ q["respuesta_c"] = PyStr(<<"x">>)

(***************************************************************************)
(* C9 as stated: resolving the list of a mode value outside the five modes *)
(* fails with an error instead of returning a list.                        *)
(***************************************************************************)
C9_Original == mode \notin Modes => pc # "resolved"

(***************************************************************************)
(* C9 as amended: resolving the list of a mode value outside the five      *)
(* modes raises no error: it returns the empty list, whatever the bank and *)
(* the answers.                                                            *)
(***************************************************************************)
C9_InvalidModeEmpty ==
    mode \notin Modes
        => /\ pc \in {"resolve", "resolved"}
           /\ pc = "resolve" => ENABLED ResolveMode
           /\ pc = "resolved" => questions = <<>>

\* an unknown mode was resolved on a bank with questions and failed answers
C9_Witness ==
    /\ pc = "resolved"
    /\ mode = "lote4"
    /\ Len(ALL_QUESTIONS) >= 3
    /\ \E n \in DOMAIN answers : ~answers[n].correct

(***************************************************************************)
(* Helpers of the properties of start-up.                                  *)
(***************************************************************************)
DocLotes(doc) == IF "lotes" \in DOMAIN doc THEN doc["lotes"] ELSE <<>>

LotePreguntas(lote) ==
    IF "preguntas" \in DOMAIN lote THEN lote["preguntas"] ELSE <<>>

\* a required field is missing from the document, a lote or a question
LacksRequiredField(doc) ==
    \/ "lotes" \notin DOMAIN doc
    \/ \E j \in 1..Len(DocLotes(doc)) :
          \/ {"lote_id", "preguntas"} \ DOMAIN DocLotes(doc)[j] # {}
          \/ \E i \in 1..Len(LotePreguntas(DocLotes(doc)[j])) :
                {"n", "pregunta", "respuesta_a", "respuesta_b",
                 "respuesta_c", "correcta"}
                    \ DOMAIN LotePreguntas(DocLotes(doc)[j])[i] # {}

Malformed(src) == src.exists /\ src.parses /\ LacksRequiredField(src.data)

Unreadable(src) == ~src.exists \/ ~src.parses

\* the number of questions in the lotes before the j-th
RECURSIVE QuestionsBefore(_, _)
QuestionsBefore(lotes, j) ==
    IF j <= 1 THEN 0
    ELSE QuestionsBefore(lotes, j - 1) + Len(LotePreguntas(lotes[j - 1]))

\* `flat` holds the questions of the lotes, lote after lote, each with the
\* lote_id of its lote (None when the lote has none) and otherwise as read
IsFlatteningOf(flat, lotes) ==
    /\ Len(flat) = QuestionsBefore(lotes, Len(lotes) + 1)
    /\ \A j \in 1..Len(lotes) :
          \A i \in 1..Len(LotePreguntas(lotes[j])) :
              LET f == flat[QuestionsBefore(lotes, j) + i]
                  src == LotePreguntas(lotes[j])[i]
              IN  /\ DOMAIN f = DOMAIN src \cup {"lote_id"}
                  /\ \A k \in DOMAIN src : f[k] = src[k]
                  /\ f["lote_id"] = IF "lote_id" \in DOMAIN lotes[j]
                                    THEN lotes[j]["lote_id"] ELSE None

(***************************************************************************)
(* C10 as stated: loading fails (start-up halts and no question list is    *)
(* produced) when the document is missing and when a lote or a question    *)
(* lacks a required field.                                                 *)
(***************************************************************************)
C10_Original ==
    (Unreadable(source) \/ Malformed(source))
        => pc \in {"load", "stopped", "error"}

(***************************************************************************)
(* C10 as amended: loading halts start-up exactly when the document is     *)
(* missing or cannot be parsed.  A document that lacks fields loads: a     *)
(* missing lote list gives the empty question list, a lote without a       *)
(* question list gives no question, a lote without a lote_id tags its      *)
(* questions None, and a question is copied with the fields it has.        *)
(***************************************************************************)
C10_LoadOutcome ==
    /\ pc = "stopped" => ~source.exists
    /\ pc = "error" => source.exists /\ ~source.parses
    /\ pc \in {"loaded", "flattened"}
          => ~Unreadable(source) /\ BANK = source.data
    /\ Unreadable(source) => pc \in {"load", "stopped", "error"}
    /\ pc = "load" => ENABLED LoadBank
    /\ pc = "loaded" => ENABLED FlattenQuestions
    /\ pc = "flattened"
          => IsFlatteningOf(ALL_QUESTIONS, DocLotes(source.data))

\* a bank was flattened whose first lote has no lote_id and whose questions
\* have no n and no correcta
C10_Witness ==
    /\ pc = "flattened"
    /\ Len(ALL_QUESTIONS) >= 3
    /\ ALL_QUESTIONS[1]["lote_id"] = None
    /\ {"n", "correcta"} \cap DOMAIN ALL_QUESTIONS[1] = {}
    /\ ALL_QUESTIONS[Len(ALL_QUESTIONS)]["lote_id"] # None

(***************************************************************************)
(* C11: after any sequence of next, previous, submit, mode-change and      *)
(* reset actions, the list of the run is the list of the active mode, the  *)
(* index is never negative, a fetched question is the one at an index      *)
(* within 0..length-1 of that list, and no question is fetched when the    *)
(* list is empty.                                                          *)
(***************************************************************************)
C11_IndexInRange ==
    /\ questions = get_questions_for_mode(mode, ALL_QUESTIONS, answers)
    /\ current_index >= 0
    /\ q # IndexError
    /\ questions = <<>> => q = None
    /\ questions # <<>>
          => /\ current_index \in 0..(Len(questions) - 1)
             /\ q = questions[current_index + 1]

\* a submit on the last question of the list: the index was clamped back
\* to the last position, whose question is fetched again
C11_Witness ==
    /\ last_action.op = "submit"
    /\ Len(questions) >= 2
    /\ current_index = Len(questions) - 1
    /\ q # None
    /\ q["n"] = last_action.n

(***************************************************************************)
(* C12: a submit of letter c for a question q that is not yet correct      *)
(* adds exactly 1 to q's attempts and sets selected = c; when c is q's     *)
(* correct letter it sets correct and does not lock q, otherwise correct   *)
(* stays FALSE and q is locked; no other record changes.                   *)
(***************************************************************************)
AttemptsOf(n) == IF n \in DOMAIN answers THEN answers[n].attempts ELSE 0

C12_SubmitEffect ==
    (last_action'.op = "submit" /\ ~Correct(q["n"]))
        => /\ q["n"] \in DOMAIN answers'
           /\ answers'[q["n"]].attempts = AttemptsOf(q["n"]) + 1
           /\ answers'[q["n"]].selected = last_action'.choice
           /\ last_action'.choice = get_correct_letter(q)
                 => /\ answers'[q["n"]].correct
                    /\ locked' = locked
                    /\ q["n"] \notin locked'
           /\ last_action'.choice # get_correct_letter(q)
                 => /\ ~answers'[q["n"]].correct
                    /\ locked' = locked \cup {q["n"]}

C12_OthersUnchanged ==
    last_action'.op = "submit"
        => /\ DOMAIN answers' = DOMAIN answers \cup {q["n"]}
           /\ \A n \in DOMAIN answers \ {q["n"]} : answers'[n] = answers[n]

\* the index is one more after the submit
C12_IndexAdvances ==
    last_action'.op = "submit" => current_index' = current_index + 1

\* the index is one more after the submit, unless q was the last question
\* of the list: then it is the same
C12_IndexAdvancesOrStays ==
    last_action'.op = "submit"
        => /\ questions' = questions
           /\ current_index < Len(questions) - 1
                 => current_index' = current_index + 1
           /\ current_index = Len(questions) - 1
                 => current_index' = current_index

(***************************************************************************)
(* C12 as stated: the effect on the record and the lock as above, and      *)
(* after every submit (already correct, correct, incorrect) current_index  *)
(* is one more than before.  It fails for a submit on the last question    *)
(* of the list.                                                            *)
(***************************************************************************)
C12_Original ==
    [][C12_SubmitEffect /\ C12_OthersUnchanged /\ C12_IndexAdvances]_vars

(***************************************************************************)
(* C12 as amended: the effect on the record and the lock as above, and     *)
(* after every submit current_index is one more than before, except that   *)
(* the re-run clamps it to the last position of the list: a submit on the  *)
(* last question leaves current_index as it was.                           *)
(***************************************************************************)
C12_Submit ==
    [][C12_SubmitEffect /\ C12_OthersUnchanged /\ C12_IndexAdvancesOrStays]_vars

\* a wrong letter was submitted for the last question of the list while
\* another question has a record: the question is locked and still shown
C12_Witness ==
    /\ last_action.op = "submit"
    /\ last_action.outcome = "incorrect"
    /\ last_action.n \in locked
    /\ Cardinality(DOMAIN answers) >= 2
    /\ current_index = Len(questions) - 1
    /\ q # None
    /\ q["n"] = last_action.n

(***************************************************************************)
(* C13: for every question, the attempts count (0 without a record) never  *)
(* decreases from one state to the next, except on a reset step, where the *)
(* record is deleted and the count is 0.                                   *)
(***************************************************************************)
C13_AttemptsStep ==
    \A n \in BankIds :
        IF last_action'.op = "reset"
        THEN n \notin DOMAIN answers' /\ AttemptsOf(n)' = 0
        ELSE AttemptsOf(n)' >= AttemptsOf(n)

C13_AttemptsMonotonic == [][C13_AttemptsStep]_vars

\* a question with one attempt was submitted again, next to another record
C13_Witness ==
    /\ last_action.op = "submit"
    /\ last_action.outcome = "already-correct"
    /\ AttemptsOf(last_action.n) = 1
    /\ \E n \in DOMAIN answers : n # last_action.n /\ AttemptsOf(n) = 1

(***************************************************************************)
(* C14: a selection of a mode other than the active one sets current_index *)
(* to 0 and last_feedback to None and leaves answers, locked and           *)
(* show_correct_between as they were; a selection of the active mode       *)
(* changes nothing of the session (current_index is kept).                 *)
(***************************************************************************)
C14_ModeChanged ==
    (last_action'.op = "mode" /\ mode' # mode)
        => /\ current_index' = 0
           /\ last_feedback' = None
           /\ UNCHANGED <<answers, locked, show_correct_between>>

C14_ModeSame ==
    (last_action'.op = "mode" /\ mode' = mode)
        => UNCHANGED <<current_index, last_feedback, answers, locked,
                       show_correct_between, questions, q>>

C14_ModeChange == [][C14_ModeChanged /\ C14_ModeSame]_vars

\* the review mode was just selected from another mode, with two failed
\* questions and the checkbox set
C14_Witness ==
    /\ last_action.op = "mode"
    /\ last_action.changed
    /\ mode = "review"
    /\ Len(questions) >= 2
    /\ current_index = 0
    /\ Cardinality(locked) >= 2
    /\ show_correct_between

(***************************************************************************)
(* C15: a reset leaves mode and show_correct_between exactly as they were  *)
(* before it, from every reachable state.                                  *)
(***************************************************************************)
C15_ResetStep ==
    last_action'.op = "reset" => UNCHANGED <<mode, show_correct_between>>

C15_ResetFrame == [][C15_ResetStep]_vars

\* a reset in the review mode with the checkbox set cleared records and
\* locks: the mode and the checkbox are not the defaults of the session
C15_Witness ==
    /\ last_action.op = "reset"
    /\ last_action.cleared >= 1
    /\ last_action.unlocked >= 1
    /\ mode = "review"
    /\ show_correct_between
    /\ questions = <<>>

(***************************************************************************)
(* C16: for the mode full the resolver returns the whole bank in load      *)
(* order (lotes in document order, questions in order within each lote,    *)
(* each with the lote_id of its lote); for the mode lote-k, k in 1..3, it  *)
(* returns the subsequence of that list of the questions whose lote_id is  *)
(* k, in the same relative order; neither result depends on the answers.   *)
(***************************************************************************)
ModeOfLote(k) == <<"lote1", "lote2", "lote3">>[k]

\* the positions in the bank of the questions of lote k
LotePositions(k) ==
    {i \in 1..Len(ALL_QUESTIONS) :
        /\ "lote_id" \in DOMAIN ALL_QUESTIONS[i]
        /\ ALL_QUESTIONS[i]["lote_id"] = PyInt(k)}

\* the j-th smallest position of P
NthPosition(P, j) == CHOOSE i \in P : Cardinality({x \in P : x < i}) = j - 1

C16_Full ==
    mode = "full"
        => /\ questions = ALL_QUESTIONS
           /\ IsFlatteningOf(questions, DocLotes(source.data))

C16_Lote ==
    \A k \in 1..3 :
        mode = ModeOfLote(k)
            => /\ Len(questions) = Cardinality(LotePositions(k))
               /\ \A j \in 1..Len(questions) :
                     questions[j] = ALL_QUESTIONS[NthPosition(LotePositions(k), j)]

C16_AnswersIgnored ==
    mode \in {"full", "lote1", "lote2", "lote3"}
        => \A a \in SessionAnswers(ALL_QUESTIONS) :
              get_questions_for_mode(mode, ALL_QUESTIONS, a) = questions

C16_FullAndLote ==
    pc = "resolved" => C16_Full /\ C16_Lote /\ C16_AnswersIgnored

\* lote 1 was resolved on a bank whose second lote is lote 1, in a session
\* with a failed question: the list is the second question of the bank
C16_Witness ==
    /\ pc = "resolved"
    /\ mode = "lote1"
    /\ Len(ALL_QUESTIONS) = 3
    /\ questions = <<ALL_QUESTIONS[2]>>
    /\ ALL_QUESTIONS[1]["lote_id"] = PyInt(2)
    /\ \E n \in DOMAIN answers : ~answers[n].correct

(***************************************************************************)
(* C17: in every reachable state every record of answers has attempts = 1: *)
(* only a submit creates a record, the first submit sets attempts to 1 and *)
(* no later submit raises it.                                              *)
(***************************************************************************)
C17_AttemptsIsOne ==
    \A n \in DOMAIN answers : answers[n].attempts = 1

\* every question of the bank has a record, one of them failed and locked,
\* and a correct one was just submitted once more
C17_Witness ==
    /\ last_action.op = "submit"
    /\ last_action.outcome = "already-correct"
    /\ Len(ALL_QUESTIONS) >= 3
    /\ DOMAIN answers = BankIds
    /\ \E n \in locked : Failed(n)

(***************************************************************************)
(* C18: while the mode is review every question of the active list is      *)
(* locked and failed, so no submit is enabled for the displayed question;  *)
(* hence a step other than a reset that stays in the review mode changes   *)
(* neither answers nor locked, and the review list stays the same.         *)
(***************************************************************************)
C18_ListLockedAndFailed ==
    mode = "review"
        => \A i \in 1..Len(questions) :
              /\ questions[i]["n"] \in locked
              /\ Failed(questions[i]["n"])
              /\ ~Correct(questions[i]["n"])

C18_SubmitNeverEnabled ==
    mode = "review"
        => /\ q # None => submit_disabled(q, answers, locked)
           /\ \A choice \in Letters : ~ENABLED SubmitClick(choice)

C18_ReviewStep ==
    (mode = "review" /\ mode' = "review" /\ last_action'.op # "reset")
        => UNCHANGED <<answers, locked, questions>>

LoteIds ==
    {k \in 1..4 : \E i \in 1..Len(ALL_QUESTIONS) :
                      ALL_QUESTIONS[i]["lote_id"] = PyInt(k)}

C19_FailedBlocksLote ==
    \A n \in BankIds :
        Failed(n)
            => /\ \A k \in LoteIds :
                     QuestionOf(n)["lote_id"] = PyInt(k)
                         => ~is_lot_completed(k, ALL_QUESTIONS, answers)
               /\ totals(ALL_QUESTIONS, answers).correct < Len(ALL_QUESTIONS)

C19_FailedStays ==
    \A n \in BankIds :
        (Failed(n) /\ last_action'.op # "reset") => Failed(n)'

C19_NoCompletionAfterFailure ==
    /\ []C19_FailedBlocksLote
    /\ [][C19_FailedStays]_vars

\* every question of a lote of three was submitted and all but one are
\* correct; the last step was one more submit
C19_Witness ==
    /\ last_action.op = "submit"
    /\ LoteIds = {1}
    /\ Len(ALL_QUESTIONS) >= 3
    /\ totals(ALL_QUESTIONS, answers).attempted = Len(ALL_QUESTIONS)
    /\ totals(ALL_QUESTIONS, answers).correct = Len(ALL_QUESTIONS) - 1
    /\ ~is_lot_completed(1, ALL_QUESTIONS, answers)

(***************************************************************************)
(* C20: last_feedback is None in every reachable state: it starts as None, *)
(* every operation that writes it writes None, and no submit, with         *)
(* show_correct_between set or not, stores a message in it.                *)
(***************************************************************************)
C20_NoFeedbackStored == last_feedback = None

\* a wrong letter was just submitted with the checkbox set
C20_Witness ==
    /\ last_action.op = "submit"
    /\ last_action.outcome = "incorrect"
    /\ show_correct_between
    /\ Cardinality(DOMAIN answers) >= 2
    /\ \E n \in DOMAIN answers : Correct(n)

====
